---- MODULE Spec2Model ----
(***************************************************************************)
(* A model of pymatgen's XRD pattern calculator                            *)
(* (src/src/pymatgen/analysis/diffraction/xrd.py): the construction of an  *)
(* XRDCalculator and the steps of XRDCalculator.get_pattern.               *)
(*                                                                         *)
(* Numbers.  Floats are modelled on integer grids:                         *)
(*   - a wavelength is a positive integer W (in length units);             *)
(*   - a reciprocal magnitude g is an integer such that                    *)
(*         wavelength * g_hkl / 2  =  W * g / SinDen,                      *)
(*     so the limiting sphere 2 / wavelength is  W * g <= SinDen;          *)
(*   - an angle is an integer number of degrees;                           *)
(*   - fractional coordinates are integers in quarters of a cell edge;     *)
(*   - occupancies are integers in halves;                                 *)
(*   - a d-spacing is kept in thousandths of a length unit.                *)
(* Miller indices come from the enumerator as floats: they are modelled in *)
(* tenths and rounded to integers as the code rounds them.                 *)
(***************************************************************************)
EXTENDS Integers, Sequences, FiniteSets

\* ------------------------------------------------------------------ bounds

\* The largest reciprocal magnitude a lattice of the model gives a point.
GMax == 3

\* The largest number of sites of a structure.
MaxSites == 2

\* The largest magnitude of the energy of an entry, in units of 2e-9.
EnergyMax == 3

\* ------------------------------------------------------- program constants

\* WAVELENGTHS, in the model's length unit.
WAVELENGTHS == [CuKa |-> 2, MoKa |-> 1]

\* AVAILABLE_RADIATION = tuple(WAVELENGTHS)
AVAILABLE_RADIATION == DOMAIN WAVELENGTHS

\* AbstractDiffractionPatternCalculator.TWO_THETA_TOL, in degrees of the grid.
TWO_THETA_TOL == 14

\* AbstractDiffractionPatternCalculator.SCALED_INTENSITY_TOL, a percentage, as the
\* fraction <<numerator, denominator>>.
SCALED_INTENSITY_TOL == <<1, 1000>>

\* The atomic numbers sp.Z of the species of the model.
AtomicNumber == [Li |-> 3, Fe |-> 26, Xx |-> 5]

\* The table ATOMIC_SCATTERING_PARAMS as loaded: symbol -> sequence of <<a_i, b_i>>.
\* The symbol Xx has no entry.
LoadedParams == [Li |-> << <<1, 40>>, <<1, 4>> >>, Fe |-> << <<2, 27>>, <<1, 3>> >>]

\* ------------------------------------------------------------ numeric tables

Abs(n) == IF n < 0 THEN -n ELSE n

\* math.degrees(2 * math.asin(x / SinDen)), rounded to whole degrees; x in 0..SinDen.
TwoThetaTable == <<13, 26, 39, 53, 68, 84, 102, 125, 180>>

\* wavelength * g_hkl / 2 = W * g / SinDen: the grid of g.
SinDen == Len(TwoThetaTable)

\* (1 + cos(2 theta)^2) / (sin(theta)^2 * cos(theta)) at sin(theta) = x / SinDen,
\* rounded; x in 1..SinDen-1 (at x = SinDen the cosine vanishes).
LorentzTable == <<159, 38, 15, 8, 4, 3, 3, 4>>

\* 1000 * exp(-q) for a whole q >= 0, rounded.
ExpNegMilli(q) ==
    IF q >= 8 THEN 0 ELSE <<1000, 368, 135, 50, 18, 7, 2, 1>>[q + 1]

\* SinDen * 1000 * sin(radians(t / 2)), rounded, for the angles t of the model.
SinHalfMilli(t) ==
    CASE t = 0 -> 0
      [] t = 30 -> 2329
      [] t = 60 -> 4500
      [] t = 90 -> 6364

\* ------------------------------------------------------------------ inputs

\* The Miller indices the reciprocal-lattice enumerator returns, as floats in
\* tenths: the origin first, then the other points of the model.
HKLPool == << <<0, 0, 0>>, <<10, 0, 0>>, <<-9, 10, 1>>, <<0, 11, 10>> >>

\* A lattice: whether it is hexagonal, and the magnitude g of each point of HKLPool
\* (0 for the origin only).
Lattices ==
    { [is_hex |-> hx, g |-> [i \in 1..Len(HKLPool) |-> IF i = 1 THEN 0 ELSE gs[i]]] :
        hx \in BOOLEAN, gs \in [2..Len(HKLPool) -> 1..GMax] }

\* The sites of the model: the species on the site with their occupancies (in
\* halves), and the fractional coordinates (in quarters).
SitePool ==
    { [species |-> << <<"Fe", 2>> >>, frac_coords |-> <<0, 0, 0>>],
      [species |-> << <<"Li", 1>>, <<"Fe", 1>> >>, frac_coords |-> <<1, 2, 2>>],
      [species |-> << <<"Xx", 2>> >>, frac_coords |-> <<2, 0, 0>>] }

\* The sites of a structure, in the order the structure holds them; no two sites
\* occupy the same position.
SiteSeqs ==
    UNION { { ss \in [1..n -> SitePool] : \A i, j \in 1..n : ss[i] = ss[j] => i = j } :
            n \in 1..MaxSites }

Structures == { [lattice |-> l, sites |-> ss] : l \in Lattices, ss \in SiteSeqs }

\* two_theta_range: None (the empty tuple) or <<lo, hi>> in degrees.
NoneRange == <<>>

TwoThetaRanges == { NoneRange, <<0, 90>>, <<30, 60>> }

\* The wavelength argument of the constructor: a number, a string or a value of
\* another type.
WavelengthArgs ==
    { [kind |-> "num", num |-> 1, str |-> ""],
      [kind |-> "str", num |-> 0, str |-> "CuKa"],
      [kind |-> "str", num |-> 0, str |-> "Zz"],
      [kind |-> "other", num |-> 0, str |-> ""] }

\* The debye_waller_factors argument: None or a dict, the dict as a set of
\* <<symbol, factor>>.
DebyeWallerArgs ==
    { [is_none |-> TRUE, items |-> {}], [is_none |-> FALSE, items |-> { <<"Fe", 60>> }] }

\* ----------------------------------------------------- candidate points

\* A variant of MinMaxR whose unbounded sphere has radius 1 / wavelength.
MinMaxRHalfSphere(two_theta_range) ==
    IF two_theta_range = NoneRange
    THEN <<0, SinDen * 500>>
    ELSE <<SinHalfMilli(two_theta_range[1]), SinHalfMilli(two_theta_range[2])>>

\* min_r and max_r (lines 158-162), both multiplied by wavelength * SinDen * 500:
\* a point of magnitude g is inside radius r iff W * g * 1000 <= r.
MinMaxR(two_theta_range) ==
    IF two_theta_range = NoneRange
    THEN <<0, SinDen * 1000>>
    ELSE <<SinHalfMilli(two_theta_range[1]), SinHalfMilli(two_theta_range[2])>>

\* recip_lattice.get_points_in_sphere([[0, 0, 0]], [0, 0, 0], r): every point
\* of the lattice of magnitude <= r, in the enumerator's order.
GetPointsInSphere(lattice, W, r) ==
    LET F[i \in 0..Len(HKLPool)] ==
            IF i = 0 THEN <<>>
            ELSE IF W * lattice.g[i] * 1000 <= r
                 THEN Append(F[i - 1], [hkl |-> HKLPool[i], g |-> lattice.g[i]])
                 ELSE F[i - 1]
    IN  F[Len(HKLPool)]

\* Lines 164-168: the points within max_r, without those below min_r when min_r
\* is not zero.
RecipPts(lattice, W, two_theta_range) ==
    LET min_r == MinMaxR(two_theta_range)[1]
        max_r == MinMaxR(two_theta_range)[2]
        pts == GetPointsInSphere(lattice, W, max_r)
    IN  IF min_r # 0
        THEN SelectSeq(pts, LAMBDA pt : W * pt.g * 1000 >= min_r)
        ELSE pts

\* The sort key of line 202: (g, -h, -k, -l), compared as Python compares tuples.
SortKey(pt) == <<pt.g, -pt.hkl[1], -pt.hkl[2], -pt.hkl[3]>>

KeyLess(a, b) ==
    \E i \in 1..4 : a[i] < b[i] /\ \A j \in 1..(i - 1) : a[j] = b[j]

\* sorted(recip_pts, key=...): a stable sort.
RECURSIVE InsertSorted(_, _)
InsertSorted(s, pt) ==
    IF s = <<>> THEN <<pt>>
    ELSE IF KeyLess(SortKey(pt), SortKey(s[Len(s)]))
         THEN Append(InsertSorted(SubSeq(s, 1, Len(s) - 1), pt), s[Len(s)])
         ELSE Append(s, pt)

\* A variant of Sorted that processes the points in the order of the enumerator.
Unsorted(s) == s

\* A variant of Sorted that orders the points by g alone and leaves points of
\* equal g in the order of the enumerator.
RECURSIVE InsertSortedByG(_, _)
InsertSortedByG(s, pt) ==
    IF s = <<>> THEN <<pt>>
    ELSE IF pt.g < s[Len(s)].g
         THEN Append(InsertSortedByG(SubSeq(s, 1, Len(s) - 1), pt), s[Len(s)])
         ELSE Append(s, pt)

RECURSIVE SortedByG(_)
SortedByG(s) ==
    IF s = <<>> THEN <<>>
    ELSE InsertSortedByG(SortedByG(SubSeq(s, 1, Len(s) - 1)), s[Len(s)])

RECURSIVE Sorted(_)
Sorted(s) ==
    IF s = <<>> THEN <<>>
    ELSE InsertSorted(Sorted(SubSeq(s, 1, Len(s) - 1)), s[Len(s)])

\* ------------------------------------------------- structure factor engine

\* round(i) of a float kept in tenths: to the nearest integer, a half to the even
\* one.
Round10(v) ==
    LET lo == v \div 10
        r == v % 10
    IN  IF r < 5 THEN lo
        ELSE IF r > 5 THEN lo + 1
        ELSE IF lo % 2 = 0 THEN lo ELSE lo + 1

\* Line 204: hkl = [round(i) for i in hkl]
RoundHkl(hkl) == <<Round10(hkl[1]), Round10(hkl[2]), Round10(hkl[3])>>

\* dict.get(symbol, default) on a dict kept as a set of <<key, value>>.
DictGet(d, key, default) ==
    IF \E kv \in d : kv[1] = key
    THEN (CHOOSE kv \in d : kv[1] = key)[2]
    ELSE default

RECURSIVE SumSeq(_)
SumSeq(s) == IF s = <<>> THEN 0 ELSE s[1] + SumSeq(Tail(s))

\* Lines 211-214: s = g_hkl / 2 and s2 = s ** 2; with g_hkl = 2 * g / SinDen,
\* s2 = g * g / SinDen^2. Kept as the numerator g * g.
S2Num(g) == g * g

S2Den == SinDen * SinDen

\* Lines 228-231, for one flattened entry: the atomic scattering factor
\* Z - 41.78214 * s2 * sum(a_i * exp(-b_i * s2)), rounded down.
ScatteringFactor(z, coeff, g) ==
    LET series == SumSeq([i \in 1..Len(coeff) |->
                     coeff[i][1] * ExpNegMilli((coeff[i][2] * S2Num(g)) \div S2Den)])
    IN  z - ((4178 * S2Num(g) * series) \div (S2Den * 100 * 1000))

\* Line 233: dw_correction = exp(-dw_factors * s2), in thousandths.
DwCorrection(dw, g) == ExpNegMilli((dw * S2Num(g)) \div S2Den)

\* Line 218: g_dot_r = dot(frac_coords, hkl), in quarters.
GDotR(frac, hkl) == frac[1] * hkl[1] + frac[2] * hkl[2] + frac[3] * hkl[3]

\* exp(2j * pi * q / 4) as <<real, imaginary>>.
Phase(q) ==
    CASE q % 4 = 0 -> <<1, 0>>
      [] q % 4 = 1 -> <<0, 1>>
      [] q % 4 = 2 -> <<-1, 0>>
      [] q % 4 = 3 -> <<0, -1>>

\* Line 238: f_hkl = sum(fs * occus * exp(2j * pi * g_dot_r) * dw_correction), as
\* <<real, imaginary>>, in halves (the unit of the occupancies).
StructureFactor(arrays, hkl, g) ==
    LET n == Len(arrays.zs)
        amp(i) == (ScatteringFactor(arrays.zs[i], arrays.coeffs[i], g) * arrays.occus[i]
                    * DwCorrection(arrays.dw_factors[i], g)) \div 1000
        ph(i) == Phase(GDotR(arrays.frac_coords[i], hkl))
    IN  <<SumSeq([i \in 1..n |-> amp(i) * ph(i)[1]]),
          SumSeq([i \in 1..n |-> amp(i) * ph(i)[2]])>>

\* A variant of IntensityOf that squares f_hkl without conjugating it.
IntensityOfSquare(f_hkl) == f_hkl[1] * f_hkl[1] - f_hkl[2] * f_hkl[2]

\* Line 244: i_hkl = (f_hkl * f_hkl.conjugate()).real
IntensityOf(f_hkl) == f_hkl[1] * f_hkl[1] + f_hkl[2] * f_hkl[2]

\* Lines 207 and 241: the Lorentz polarization factor at
\* theta = asin(wavelength * g_hkl / 2).
LorentzFactor(W, g) == LorentzTable[W * g]

\* Lines 207 and 246: two_theta = degrees(2 * asin(wavelength * g_hkl / 2)).
TwoTheta(W, g) == TwoThetaTable[W * g]

\* Line 259: d_hkl = 1 / g_hkl, in thousandths.
DHkl(g) == (SinDen * 1000) \div (2 * g)

\* A variant of HexConvert with a sign slip in the third index.
HexConvertSignSlip(hkl, is_hex) ==
    IF is_hex THEN <<hkl[1], hkl[2], -hkl[1] + hkl[2], hkl[3]>> ELSE hkl

\* Lines 248-250: Miller-Bravais indices for a hexagonal lattice.
HexConvert(hkl, is_hex) ==
    IF is_hex THEN <<hkl[1], hkl[2], -hkl[1] - hkl[2], hkl[3]>> ELSE hkl

\* Lines 204-246: i_hkl * lorentz_factor of one point, from the rounded indices.
CorrectedIntensity(arrays, W, pt) ==
    IntensityOf(StructureFactor(arrays, RoundHkl(pt.hkl), pt.g)) * LorentzFactor(W, pt.g)

\* ------------------------------------------------------------ peak aggregator

\* The empty dict.
EmptyDict == [k \in {} |-> 0]

\* d[key] = value
DictSet(d, key, value) ==
    [k \in DOMAIN d \cup {key} |-> IF k = key THEN value ELSE d[k]]

\* A variant of WhereWithinTol that compares the angles for equality.
WhereEqual(two_thetas, two_theta) ==
    { i \in 1..Len(two_thetas) : two_thetas[i] = two_theta }

\* A variant of WhereWithinTol that compares the signed difference.
WhereWithinTolSigned(two_thetas, two_theta) ==
    { i \in 1..Len(two_thetas) : two_thetas[i] - two_theta < TWO_THETA_TOL }

\* Lines 252-254: np.where(abs(two_thetas - two_theta) < TWO_THETA_TOL): the
\* positions of the recorded angles within the tolerance, ascending.
WhereWithinTol(two_thetas, two_theta) ==
    { i \in 1..Len(two_thetas) : Abs(two_thetas[i] - two_theta) < TWO_THETA_TOL }

MinOf(S) == CHOOSE m \in S : \A n \in S : m <= n

MaxOf(S) == CHOOSE m \in S : \A n \in S : m >= n

\* A variant of MergePeak that assigns the intensity instead of adding it.
MergePeakAssign(peaks, key, intensity, hkl) ==
    DictSet(peaks, key,
            [intensity |-> intensity,
             hkls |-> Append(peaks[key].hkls, hkl),
             d_hkl |-> peaks[key].d_hkl])

\* Lines 256-257: add to the first entry within the tolerance.
MergePeak(peaks, key, intensity, hkl) ==
    DictSet(peaks, key,
            [intensity |-> peaks[key].intensity + intensity,
             hkls |-> Append(peaks[key].hkls, hkl),
             d_hkl |-> peaks[key].d_hkl])

\* Lines 259-260: a new entry keyed by the point's angle.
CreatePeak(peaks, two_theta, intensity, hkl, g) ==
    DictSet(peaks, two_theta,
            [intensity |-> intensity, hkls |-> <<hkl>>, d_hkl |-> DHkl(g)])

\* A variant of AggregatePoint whose merge takes the d-spacing of the merged point.
AggregatePointMergeUpdatesD(peaks, two_thetas, arrays, W, is_hex, pt) ==
    IF pt.g # 0
    THEN LET intensity == CorrectedIntensity(arrays, W, pt)
             two_theta == TwoTheta(W, pt.g)
             hkl == HexConvert(RoundHkl(pt.hkl), is_hex)
             ind == WhereWithinTol(two_thetas, two_theta)
         IN  IF ind # {}
             THEN LET key == two_thetas[MinOf(ind)]
                  IN  [peaks |-> DictSet(peaks, key,
                                         [intensity |-> peaks[key].intensity + intensity,
                                          hkls |-> Append(peaks[key].hkls, hkl),
                                          d_hkl |-> DHkl(pt.g)]),
                       two_thetas |-> two_thetas]
             ELSE [peaks |-> CreatePeak(peaks, two_theta, intensity, hkl, pt.g),
                   two_thetas |-> Append(two_thetas, two_theta)]
    ELSE [peaks |-> peaks, two_thetas |-> two_thetas]

\* A variant of AggregatePoint that records the angle of a merged point too.
AggregatePointAlwaysAppend(peaks, two_thetas, arrays, W, is_hex, pt) ==
    IF pt.g # 0
    THEN LET intensity == CorrectedIntensity(arrays, W, pt)
             two_theta == TwoTheta(W, pt.g)
             hkl == HexConvert(RoundHkl(pt.hkl), is_hex)
             ind == WhereWithinTol(two_thetas, two_theta)
         IN  IF ind # {}
             THEN [peaks |-> MergePeak(peaks, two_thetas[MinOf(ind)], intensity, hkl),
                   two_thetas |-> Append(two_thetas, two_theta)]
             ELSE [peaks |-> CreatePeak(peaks, two_theta, intensity, hkl, pt.g),
                   two_thetas |-> Append(two_thetas, two_theta)]
    ELSE [peaks |-> peaks, two_thetas |-> two_thetas]

\* Lines 204-261: the body of the loop over the sorted points, for one point.
\* The result is the pair of peaks and two_thetas after it.
AggregatePoint(peaks, two_thetas, arrays, W, is_hex, pt) ==
    IF pt.g # 0
    THEN LET intensity == CorrectedIntensity(arrays, W, pt)
             two_theta == TwoTheta(W, pt.g)
             hkl == HexConvert(RoundHkl(pt.hkl), is_hex)
             ind == WhereWithinTol(two_thetas, two_theta)
         IN  IF ind # {}
             THEN [peaks |-> MergePeak(peaks, two_thetas[MinOf(ind)], intensity, hkl),
                   two_thetas |-> two_thetas]
             ELSE [peaks |-> CreatePeak(peaks, two_theta, intensity, hkl, pt.g),
                   two_thetas |-> Append(two_thetas, two_theta)]
    ELSE [peaks |-> peaks, two_thetas |-> two_thetas]

\* Lines 199-261: peaks and two_thetas after the first n points of the loop.
RECURSIVE AggregateAll(_, _, _, _, _)
AggregateAll(arrays, W, is_hex, points, n) ==
    IF n = 0 THEN [peaks |-> EmptyDict, two_thetas |-> <<>>]
    ELSE LET before == AggregateAll(arrays, W, is_hex, points, n - 1)
         IN  AggregatePoint(before.peaks, before.two_thetas, arrays, W, is_hex, points[n])

\* ---------------------------------------------------------- pattern normalizer

\* sorted(peaks): the keys, ascending.
RECURSIVE SortedKeys(_)
SortedKeys(S) ==
    IF S = {} THEN <<>> ELSE <<MinOf(S)>> \o SortedKeys(S \ {MinOf(S)})

\* Whether two index tuples are permutations of each other up to sign.
IsPerm(a, b) ==
    /\ Len(a) = Len(b)
    /\ \A v \in { Abs(a[i]) : i \in DOMAIN a } \cup { Abs(b[i]) : i \in DOMAIN b } :
         Cardinality({i \in DOMAIN a : Abs(a[i]) = v})
             = Cardinality({i \in DOMAIN b : Abs(b[i]) = v})

\* Whether tuple a follows tuple b in the order of tuples.
TupleGreater(a, b) ==
    \E i \in DOMAIN a : a[i] > b[i] /\ \A j \in 1..(i - 1) : a[j] = b[j]

\* get_unique_families(hkls): the families of symmetry-equivalent indices, each
\* with its greatest member and the number of recorded tuples in it.
GetUniqueFamilies(hkls) ==
    { [hkl |-> hkls[i],
       multiplicity |-> Cardinality({j \in DOMAIN hkls : IsPerm(hkls[i], hkls[j])})] :
        i \in { i \in DOMAIN hkls :
                    \A j \in DOMAIN hkls :
                        IsPerm(hkls[i], hkls[j]) => ~TupleGreater(hkls[j], hkls[i]) } }

\* Line 264: max(v[0] for v in peaks.values()), of a dict that is not empty.
MaxIntensity(peaks) == MaxOf({ peaks[k].intensity : k \in DOMAIN peaks })

\* A variant of AboveThreshold that also keeps a peak exactly at the threshold.
AtOrAboveThreshold(intensity, max_intensity) ==
    /\ max_intensity # 0
    /\ intensity * 100
         >= (SCALED_INTENSITY_TOL[1] * max_intensity) \div SCALED_INTENSITY_TOL[2]

\* Line 272: v[0] / max_intensity * 100 > SCALED_INTENSITY_TOL. The intensities
\* are numpy floats: 0 / 0 is nan, and the comparison is then false. With whole
\* intensities, v * 100 / m > n / d iff v * 100 > (n * m) \div d.
AboveThreshold(intensity, max_intensity) ==
    /\ max_intensity # 0
    /\ intensity * 100
         > (SCALED_INTENSITY_TOL[1] * max_intensity) \div SCALED_INTENSITY_TOL[2]

\* Lines 265-277: the peaks above the threshold, by ascending key.
FilterPeaks(peaks) ==
    LET keys == SortedKeys(DOMAIN peaks)
        kept == SelectSeq(keys,
                    LAMBDA k : AboveThreshold(peaks[k].intensity, MaxIntensity(peaks)))
    IN  [x |-> kept,
         y |-> [i \in DOMAIN kept |-> peaks[kept[i]].intensity],
         hkls |-> [i \in DOMAIN kept |-> GetUniqueFamilies(peaks[kept[i]].hkls)],
         d_hkls |-> [i \in DOMAIN kept |-> peaks[kept[i]].d_hkl]]

\* DiffractionPattern.normalize(mode="max", value=100): every intensity times
\* 100 / max(y). The maximum of no intensity at all is an error.
Normalize(xrd) ==
    LET factor == MaxOf({ xrd.y[i] : i \in DOMAIN xrd.y })
    IN  [xrd EXCEPT !.y = [i \in DOMAIN xrd.y |-> (xrd.y[i] * 100) \div factor]]

NoPattern == [x |-> <<>>, y |-> <<>>, hkls |-> <<>>, d_hkls |-> <<>>]

NoOutcome == [status |-> "none", err |-> "", pattern |-> NoPattern]

Raised(e) == [status |-> "error", err |-> e, pattern |-> NoPattern]

Returned(xrd) == [status |-> "ok", err |-> "", pattern |-> xrd]

\* A variant of Finalize that returns an empty pattern when there is no peak.
FinalizeEmptyPattern(peaks, scaled) ==
    IF DOMAIN peaks = {}
    THEN Returned(NoPattern)
    ELSE LET xrd == FilterPeaks(peaks)
         IN  IF scaled
             THEN IF xrd.y = <<>> THEN Raised("ValueError") ELSE Returned(Normalize(xrd))
             ELSE Returned(xrd)

\* Lines 263-280: what get_pattern returns or raises once the points are aggregated.
Finalize(peaks, scaled) ==
    IF DOMAIN peaks = {}
    THEN Raised("ValueError")
    ELSE LET xrd == FilterPeaks(peaks)
         IN  IF scaled
             THEN IF xrd.y = <<>> THEN Raised("ValueError") ELSE Returned(Normalize(xrd))
             ELSE Returned(xrd)

\* ------------------------------------------------------------------- entries
\* pymatgen/entries/__init__.py. An energy is a whole number of units of 2e-9,
\* a grid on which no value lies half way between two values of 8 decimals.

\* The classes of the entries of the model; neither is a subclass of the other.
EntryClasses == {"PDEntry", "ComputedEntry"}

\* The formulas of the compositions of the model.
Formulas == {"Fe2 O3", "Li1"}

Energies == (0 - EnergyMax)..EnergyMax

\* Entry.__init__: the stored composition and the stored energy.
NewEntry(cls, composition, energy) ==
    [cls |-> cls, composition |-> composition, energy |-> energy]

\* The energy property of the class of the entry: the stored energy.
EnergyOf(entry) == entry.energy

\* np.allclose(a, b): abs(a - b) <= atol + rtol * abs(b), with atol = 1e-8 (5
\* units) and rtol = 1e-5.
AllClose(a, b) == Abs(a - b) * 100000 <= 5 * 100000 + Abs(b)

\* f"{energy:.8f}": the sign, then the magnitude rounded to 8 decimals (in units
\* of 1e-8); a negative value that rounds to zero keeps its sign.
Format8(energy) ==
    [negative |-> energy < 0, digits |-> (2 * Abs(energy) + 5) \div 10]

\* Entry.__eq__ (the result of the method itself).
EntryEq(a, b, same_object) ==
    IF a.cls # b.cls THEN "NotImplemented"
    ELSE IF same_object THEN "True"
    ELSE IF ~AllClose(EnergyOf(a), EnergyOf(b)) THEN "False"
    ELSE IF a.composition = b.composition THEN "True" ELSE "False"

\* Entry.__hash__: the string that is hashed.
EntryHash(a) == <<a.cls, a.composition, Format8(a.energy)>>

NoEntry == NewEntry("", "", 0)

NoEntries ==
    [pc |-> "none", a |-> NoEntry, b |-> NoEntry, same_object |-> FALSE,
     eq |-> "", hash_a |-> EntryHash(NoEntry), hash_b |-> EntryHash(NoEntry)]

\* ------------------------------------------------------------------- state

VARIABLES
    ATOMIC_SCATTERING_PARAMS,  \* the module's table of scattering parameters
    calc,        \* the XRDCalculator: the attributes set, and their values
    ctor,        \* "none" before construction, then "ok" or the error raised
    pc,          \* where get_pattern is: "idle", "sites", "points", "done", "error"
    args,        \* the arguments of the call: structure, scaled, two_theta_range
    recip_pts,   \* recip_pts after line 168
    arrays,      \* _zs, _coeffs, _frac_coords, _occus, _dw_factors
    site_i,      \* the position of the loop of lines 180-192
    pts,         \* the sorted points the loop of line 202 goes through
    pt_i,        \* the position of that loop
    peaks,       \* the dict peaks
    two_thetas,  \* the list two_thetas
    result,      \* what the call returned or raised
    prev,        \* what the previous call with the same arguments returned or raised
    entries      \* two Entry objects, and what a == b, hash(a) and hash(b) gave

vars == <<ATOMIC_SCATTERING_PARAMS, calc, ctor, pc, args, recip_pts, arrays, site_i,
          pts, pt_i, peaks, two_thetas, result, prev, entries>>

NoCalc ==
    [attrs |-> {}, wavelength |-> 0, radiation |-> "", symprec |-> 0,
     debye_waller_factors |-> {}]

NoArrays ==
    [zs |-> <<>>, coeffs |-> <<>>, frac_coords |-> <<>>, occus |-> <<>>,
     dw_factors |-> <<>>]

NoArgs ==
    [structure |-> [lattice |-> [is_hex |-> FALSE, g |-> <<>>], sites |-> <<>>],
     scaled |-> TRUE, two_theta_range |-> NoneRange]

Init ==
    /\ entries = NoEntries
    /\ ATOMIC_SCATTERING_PARAMS = LoadedParams
    /\ calc = NoCalc
    /\ ctor = "none"
    /\ pc = "idle"
    /\ args = NoArgs
    /\ recip_pts = <<>>
    /\ arrays = NoArrays
    /\ site_i = 1
    /\ pts = <<>>
    /\ pt_i = 1
    /\ peaks = EmptyDict
    /\ two_thetas = <<>>
    /\ result = NoOutcome
    /\ prev = NoOutcome

\* --------------------------------------------------------------- XRDCalculator

\* Lines 120-129: the calculator and the outcome of __init__.
InitCalculator(wavelength, symprec, debye_waller_factors) ==
    LET rest(c) ==
            [c EXCEPT !.attrs = @ \cup {"symprec", "debye_waller_factors"},
                      !.symprec = symprec,
                      !.debye_waller_factors =
                          IF debye_waller_factors.is_none THEN {}
                          ELSE debye_waller_factors.items]
    IN  IF wavelength.kind = "num"
        THEN [calc |-> rest([NoCalc EXCEPT !.attrs = {"wavelength"},
                                           !.wavelength = wavelength.num]),
              ctor |-> "ok"]
        ELSE IF wavelength.kind = "str"
        THEN IF wavelength.str \in DOMAIN WAVELENGTHS
             THEN [calc |-> rest([NoCalc EXCEPT !.attrs = {"radiation", "wavelength"},
                                                !.radiation = wavelength.str,
                                                !.wavelength = WAVELENGTHS[wavelength.str]]),
                   ctor |-> "ok"]
             ELSE [calc |-> [NoCalc EXCEPT !.attrs = {"radiation"},
                                           !.radiation = wavelength.str],
                   ctor |-> "KeyError"]
        ELSE [calc |-> NoCalc, ctor |-> "TypeError"]

\* XRDCalculator(wavelength, symprec, debye_waller_factors)
Construct ==
    /\ ctor = "none"
    /\ \E w \in WavelengthArgs, dw \in DebyeWallerArgs :
         LET made == InitCalculator(w, 0, dw)
         IN  /\ calc' = made.calc
             /\ ctor' = made.ctor
    /\ UNCHANGED <<entries, ATOMIC_SCATTERING_PARAMS, pc, args, recip_pts, arrays, site_i, pts,
                   pt_i, peaks, two_thetas, result, prev>>

\* The flattened (site, species) pairs of lines 180-181, in the order of the loops.
RECURSIVE FlatSpecies(_)
FlatSpecies(sites) ==
    IF sites = <<>> THEN <<>>
    ELSE [i \in DOMAIN sites[1].species |->
             [symbol |-> sites[1].species[i][1], occu |-> sites[1].species[i][2],
              frac_coords |-> sites[1].frac_coords]]
         \o FlatSpecies(Tail(sites))

\* Lines 148-178: the start of get_pattern, up to the loop over the sites.
\* symprec is 0 in the model, so the structure is not refined. The names the
\* call binds later (peaks, two_thetas, the sorted points) keep what the
\* model last held for them until lines 199-202 bind them.
EnterGetPattern(a) ==
    /\ args' = a
    /\ recip_pts' = RecipPts(a.structure.lattice, calc.wavelength, a.two_theta_range)
    /\ arrays' = NoArrays
    /\ site_i' = 1
    /\ result' = NoOutcome
    /\ pc' = "sites"
    /\ UNCHANGED <<entries, ATOMIC_SCATTERING_PARAMS, calc, ctor, pts, pt_i, peaks, two_thetas>>

\* calc.get_pattern(structure, scaled, two_theta_range): the first call on the
\* calculator.
Call ==
    /\ ctor = "ok"
    /\ pc = "idle"
    /\ \E st \in Structures, sc \in BOOLEAN, rg \in TwoThetaRanges :
         EnterGetPattern([structure |-> st, scaled |-> sc, two_theta_range |-> rg])
    /\ prev' = NoOutcome

\* The same call again, on the same calculator with the same arguments.
CallAgain ==
    /\ pc \in {"done", "error"}
    /\ prev.status = "none"
    /\ EnterGetPattern(args)
    /\ prev' = result

\* A variant of AppendSpecies that skips a species without scattering parameters.
AppendSpeciesSkip(arr, table, dw, entry) ==
    IF entry.symbol \in DOMAIN table
    THEN [raised |-> FALSE,
          arrays |-> [zs |-> Append(arr.zs, AtomicNumber[entry.symbol]),
                      coeffs |-> Append(arr.coeffs, table[entry.symbol]),
                      dw_factors |-> Append(arr.dw_factors, DictGet(dw, entry.symbol, 0)),
                      frac_coords |-> Append(arr.frac_coords, entry.frac_coords),
                      occus |-> Append(arr.occus, entry.occu)]]
    ELSE [raised |-> FALSE, arrays |-> arr]

\* Lines 182-192, for one (site, species) pair: the arrays after it, or the
\* error raised.
AppendSpecies(arr, table, dw, entry) ==
    IF entry.symbol \in DOMAIN table
    THEN [raised |-> FALSE,
          arrays |-> [zs |-> Append(arr.zs, AtomicNumber[entry.symbol]),
                      coeffs |-> Append(arr.coeffs, table[entry.symbol]),
                      dw_factors |-> Append(arr.dw_factors, DictGet(dw, entry.symbol, 0)),
                      frac_coords |-> Append(arr.frac_coords, entry.frac_coords),
                      occus |-> Append(arr.occus, entry.occu)]]
    ELSE [raised |-> TRUE,
          arrays |-> [arr EXCEPT !.zs = Append(arr.zs, AtomicNumber[entry.symbol])]]

\* A variant of SiteStep that keeps peaks and two_thetas from one call to the next.
SiteStepKeepPeaks ==
    /\ pc = "sites"
    /\ LET flat == FlatSpecies(args.structure.sites)
           got == AppendSpecies(arrays, ATOMIC_SCATTERING_PARAMS,
                                calc.debye_waller_factors, flat[site_i])
       IN  /\ arrays' = got.arrays
           /\ IF got.raised
              THEN /\ pc' = "error"
                   /\ result' = Raised("ValueError")
                   /\ UNCHANGED <<site_i, pts, pt_i>>
              ELSE /\ site_i' = site_i + 1
                   /\ result' = result
                   /\ IF site_i = Len(flat)
                      THEN /\ pc' = "points"
                           /\ pts' = Sorted(recip_pts)
                           /\ pt_i' = 1
                      ELSE UNCHANGED <<pc, pts, pt_i>>
    /\ UNCHANGED <<entries, ATOMIC_SCATTERING_PARAMS, calc, ctor, args, recip_pts, prev, peaks,
                   two_thetas>>

\* One pass of the loop of lines 180-192; after the last one, lines 194-202.
SiteStep ==
    /\ pc = "sites"
    /\ LET flat == FlatSpecies(args.structure.sites)
           got == AppendSpecies(arrays, ATOMIC_SCATTERING_PARAMS,
                                calc.debye_waller_factors, flat[site_i])
       IN  /\ arrays' = got.arrays
           /\ IF got.raised
              THEN /\ pc' = "error"
                   /\ result' = Raised("ValueError")
                   /\ UNCHANGED <<site_i, pts, pt_i, peaks, two_thetas>>
              ELSE /\ site_i' = site_i + 1
                   /\ result' = result
                   /\ IF site_i = Len(flat)
                      THEN /\ pc' = "points"
                           /\ peaks' = EmptyDict
                           /\ two_thetas' = <<>>
                           /\ pts' = Sorted(recip_pts)
                           /\ pt_i' = 1
                      ELSE UNCHANGED <<pc, pts, pt_i, peaks, two_thetas>>
    /\ UNCHANGED <<entries, ATOMIC_SCATTERING_PARAMS, calc, ctor, args, recip_pts, prev>>

\* One pass of the loop of lines 202-261.
PointStep ==
    /\ pc = "points"
    /\ pt_i <= Len(pts)
    /\ LET got == AggregatePoint(peaks, two_thetas, arrays, calc.wavelength,
                                 args.structure.lattice.is_hex, pts[pt_i])
       IN  /\ peaks' = got.peaks
           /\ two_thetas' = got.two_thetas
    /\ pt_i' = pt_i + 1
    /\ UNCHANGED <<entries, ATOMIC_SCATTERING_PARAMS, calc, ctor, pc, args, recip_pts, arrays,
                   site_i, pts, result, prev>>

\* Lines 263-280, once the loop over the points has ended.
Finish ==
    /\ pc = "points"
    /\ pt_i > Len(pts)
    /\ result' = Finalize(peaks, args.scaled)
    /\ pc' = IF result'.status = "ok" THEN "done" ELSE "error"
    /\ UNCHANGED <<entries, ATOMIC_SCATTERING_PARAMS, calc, ctor, args, recip_pts, arrays, site_i,
                   pts, pt_i, peaks, two_thetas, prev>>

Next == Construct \/ Call \/ CallAgain \/ SiteStep \/ PointStep \/ Finish

Spec == Init /\ [][Next]_vars

\* ------------------------------------------------------ operations on entries

xrd_vars == <<ATOMIC_SCATTERING_PARAMS, calc, ctor, pc, args, recip_pts, arrays, site_i,
              pts, pt_i, peaks, two_thetas, result, prev>>

\* Two entries are made, or one entry under two names.
MakeEntries ==
    /\ entries.pc = "none"
    /\ \E ca, cb \in EntryClasses, fa, fb \in Formulas, ea, eb \in Energies,
          same \in BOOLEAN :
         LET a == NewEntry(ca, fa, ea)
             b == IF same THEN a ELSE NewEntry(cb, fb, eb)
         IN  /\ same => (ca = cb /\ fa = fb /\ ea = eb)
             /\ entries' = [entries EXCEPT !.pc = "made", !.a = a, !.b = b,
                                            !.same_object = same]
    /\ UNCHANGED xrd_vars

\* a == b
CompareEntries ==
    /\ entries.pc = "made"
    /\ entries' = [entries EXCEPT !.pc = "compared",
                                   !.eq = EntryEq(entries.a, entries.b, entries.same_object)]
    /\ UNCHANGED xrd_vars

\* hash(a) and hash(b)
HashEntries ==
    /\ entries.pc = "compared"
    /\ entries' = [entries EXCEPT !.pc = "hashed",
                                   !.hash_a = EntryHash(entries.a),
                                   !.hash_b = EntryHash(entries.b)]
    /\ UNCHANGED xrd_vars

EntryNext == MakeEntries \/ CompareEntries \/ HashEntries

EntrySpec == Init /\ [][EntryNext]_vars

\* ------------------------------------------------------------------ claims

Range(s) == { s[i] : i \in DOMAIN s }

\* C1: in every pattern get_pattern returns, the two-theta values are strictly
\* ascending and any two of them differ by at least TWO_THETA_TOL.
C1_AnglesAscendingAndSeparated ==
    result.status = "ok" =>
        \A i, j \in DOMAIN result.pattern.x :
            i < j => /\ result.pattern.x[i] < result.pattern.x[j]
                     /\ result.pattern.x[j] - result.pattern.x[i] >= TWO_THETA_TOL

\* A returned pattern of two peaks or more, one of them merged from a point whose
\* angle differs from the peak's key.
C1_Witness ==
    /\ result.status = "ok"
    /\ Len(result.pattern.x) >= 2
    /\ \E i \in DOMAIN pts :
         /\ pts[i].g # 0
         /\ TwoTheta(calc.wavelength, pts[i].g) \notin DOMAIN peaks

\* C2: every intensity of a returned pattern is non-negative; with scaled=True
\* the pattern has a peak, its greatest intensity is exactly 100 and every
\* intensity is the accumulated one times 100 / max.
C2_IntensitiesNonNegativeAndScaled ==
    result.status = "ok" =>
        LET y == result.pattern.y
            x == result.pattern.x
        IN  /\ \A i \in DOMAIN y : y[i] >= 0
            /\ \A k \in DOMAIN peaks : peaks[k].intensity >= 0
            /\ args.scaled =>
                  /\ y # <<>>
                  /\ \E i \in DOMAIN y : y[i] = 100
                  /\ \A i \in DOMAIN y : y[i] <= 100
                  /\ \A i \in DOMAIN y :
                        y[i] = (peaks[x[i]].intensity * 100) \div MaxIntensity(peaks)
            /\ ~args.scaled => \A i \in DOMAIN y : y[i] = peaks[x[i]].intensity

\* A scaled pattern of two peaks or more, one of them below 100, computed from a
\* structure factor with an imaginary part.
C2_Witness ==
    /\ result.status = "ok"
    /\ args.scaled
    /\ Len(result.pattern.y) >= 2
    /\ \E i \in DOMAIN result.pattern.y : result.pattern.y[i] \in 1..99
    /\ \E i \in DOMAIN pts :
         pts[i].g # 0 /\ StructureFactor(arrays, RoundHkl(pts[i].hkl), pts[i].g)[2] # 0

\* C3: the returned pattern holds exactly the aggregated peaks whose intensity,
\* as a percentage of the greatest, strictly exceeds SCALED_INTENSITY_TOL (1/1000
\* of a percent: 100000 * v > max); the greatest peak is emitted when it is
\* positive.
C3_ExactlyPeaksAboveThreshold ==
    result.status = "ok" =>
        LET m == MaxIntensity(peaks)
            above == { k \in DOMAIN peaks :
                         m > 0 /\ peaks[k].intensity > m \div 100000 }
        IN  /\ Range(result.pattern.x) = above
            /\ Len(result.pattern.x) = Cardinality(above)
            /\ m > 0 => \E k \in above : peaks[k].intensity = m

\* A returned pattern that keeps a peak and drops another one of positive
\* intensity.
C3_Witness ==
    /\ result.status = "ok"
    /\ result.pattern.x # <<>>
    /\ \E k \in DOMAIN peaks : k \notin Range(result.pattern.x) /\ peaks[k].intensity > 0

\* Whether a species of some site of the structure has no scattering parameters.
HasUnknownSpecies(structure) ==
    \E i \in DOMAIN FlatSpecies(structure.sites) :
        FlatSpecies(structure.sites)[i].symbol \notin DOMAIN LoadedParams

FirstUnknown(structure) ==
    MinOf({ i \in DOMAIN FlatSpecies(structure.sites) :
              FlatSpecies(structure.sites)[i].symbol \notin DOMAIN LoadedParams })

C4_NoPattern ==
    (pc # "idle" /\ HasUnknownSpecies(args.structure)) =>
        /\ pc \in {"sites", "error"}
        /\ pc = "sites" => result.status = "none" /\ site_i <= FirstUnknown(args.structure)
        /\ pc = "error" => result = Raised("ValueError")
                            /\ site_i = FirstUnknown(args.structure)
        /\ peaks = EmptyDict
        /\ two_thetas = <<>>
        /\ ATOMIC_SCATTERING_PARAMS = LoadedParams

C4_NothingWritten ==
    (pc' # "idle" /\ HasUnknownSpecies(args'.structure)) =>
        /\ calc' = calc
        /\ ATOMIC_SCATTERING_PARAMS' = ATOMIC_SCATTERING_PARAMS

\* C4: when a species of the structure has no scattering parameters, get_pattern
\* raises ValueError at the first such species, whatever its place in the order
\* of the sites; no peak is aggregated, no pattern is returned, and the
\* calculator and the table are not written.
C4_UnknownSpeciesFailsBeforeAggregation ==
    [](C4_NoPattern) /\ [][C4_NothingWritten]_vars

\* The call has failed on an unknown species that follows a known one, with
\* reflections waiting to be aggregated.
C4_Witness ==
    /\ pc = "error"
    /\ result = Raised("ValueError")
    /\ site_i >= 2
    /\ \E i \in DOMAIN recip_pts : recip_pts[i].g # 0

\* C5: a constructor that fails has set no attribute of the calculator.
C5_FailedConstructorSetsNothing ==
    ctor \notin {"none", "ok"} => calc.attrs = {}

C6_SameOutcome ==
    /\ (pc \in {"done", "error"} /\ prev.status # "none") => result = prev
    /\ ATOMIC_SCATTERING_PARAMS = LoadedParams

C6_NothingWritten ==
    pc' # "idle" =>
        /\ calc' = calc
        /\ ATOMIC_SCATTERING_PARAMS' = ATOMIC_SCATTERING_PARAMS

\* C6: a second call on the same calculator with the same structure, scaled flag
\* and two_theta_range returns the same pattern (or raises the same error) as
\* the first, and no step of a call writes the calculator or the table.
C6_DeterministicAndSideEffectFree ==
    [](C6_SameOutcome) /\ [][C6_NothingWritten]_vars

\* The second call has returned a pattern of two peaks or more.
C6_Witness ==
    /\ pc = "done"
    /\ prev.status = "ok"
    /\ Len(result.pattern.x) >= 2
    /\ \E k \in DOMAIN peaks : Len(peaks[k].hkls) >= 2

\* The shape of a recorded index: (h, k, i, l) with h + k + i = 0 for a hexagonal
\* lattice, (h, k, l) otherwise.
IndexShapeOk(hkl, is_hex) ==
    IF is_hex THEN Len(hkl) = 4 /\ hkl[1] + hkl[2] + hkl[3] = 0 ELSE Len(hkl) = 3

\* C7: every index recorded in a peak or emitted in a pattern is a 4-tuple with
\* h + k + i = 0 for a hexagonal lattice and a 3-tuple otherwise, and once the
\* points are aggregated the angles, intensities and d-spacings are those the
\* same points give with the other kind of lattice.
C7_MillerBravaisIndices ==
    LET is_hex == args.structure.lattice.is_hex
        other == AggregateAll(arrays, calc.wavelength, ~is_hex, pts, pt_i - 1)
    IN  /\ \A k \in DOMAIN peaks : \A i \in DOMAIN peaks[k].hkls :
              IndexShapeOk(peaks[k].hkls[i], is_hex)
        /\ \A i \in DOMAIN result.pattern.hkls : \A fam \in result.pattern.hkls[i] :
              IndexShapeOk(fam.hkl, is_hex)
        /\ (pc \in {"points", "done"} /\ pt_i > Len(pts)) =>
              /\ two_thetas = other.two_thetas
              /\ DOMAIN peaks = DOMAIN other.peaks
              /\ \A k \in DOMAIN peaks :
                    /\ peaks[k].intensity = other.peaks[k].intensity
                    /\ peaks[k].d_hkl = other.peaks[k].d_hkl
                    /\ Len(peaks[k].hkls) = Len(other.peaks[k].hkls)
        /\ pc = "done" =>
              LET xrd == Finalize(other.peaks, args.scaled).pattern
              IN  result.pattern.x = xrd.x /\ result.pattern.y = xrd.y

\* A pattern of a hexagonal lattice with a merged peak and an index whose third
\* component is not zero.
C7_Witness ==
    /\ pc = "done"
    /\ args.structure.lattice.is_hex
    /\ \E k \in DOMAIN peaks :
         /\ Len(peaks[k].hkls) >= 2
         /\ \E i \in DOMAIN peaks[k].hkls : peaks[k].hkls[i][3] # 0

\* The points of a lattice, whatever their magnitude.
AllPoints(lattice) ==
    { [hkl |-> HKLPool[i], g |-> lattice.g[i]] : i \in DOMAIN HKLPool }

\* C8: the points retained with two_theta_range=None (those with
\* wavelength * g / 2 <= 1) include the points retained with any bounded range,
\* which are exactly those with min_r <= g <= max_r, r = 2 * sin(t / 2) / wavelength.
C8_UnboundedRangeIsSuperset ==
    pc # "idle" =>
        LET lattice == args.structure.lattice
            W == calc.wavelength
            rg == args.two_theta_range
            unbounded == Range(RecipPts(lattice, W, NoneRange))
        IN  /\ Range(recip_pts) \subseteq unbounded
            /\ \A r \in TwoThetaRanges : Range(RecipPts(lattice, W, r)) \subseteq unbounded
            /\ unbounded = { p \in AllPoints(lattice) : W * p.g <= SinDen }
            /\ rg # NoneRange =>
                  Range(recip_pts) =
                      { p \in AllPoints(lattice) :
                          /\ SinHalfMilli(rg[1]) <= W * p.g * 1000
                          /\ W * p.g * 1000 <= SinHalfMilli(rg[2]) }
            /\ Len(recip_pts) = Cardinality(Range(recip_pts))

\* A bounded range that retains a point, drops one below min_r and one above
\* max_r.
C8_Witness ==
    /\ pc # "idle"
    /\ args.two_theta_range # NoneRange
    /\ recip_pts # <<>>
    /\ \E p \in AllPoints(args.structure.lattice) :
         p.g # 0 /\ calc.wavelength * p.g * 1000 < SinHalfMilli(args.two_theta_range[1])
    /\ \E p \in AllPoints(args.structure.lattice) :
         /\ calc.wavelength * p.g * 1000 > SinHalfMilli(args.two_theta_range[2])
         /\ calc.wavelength * p.g <= SinDen

\* The positions among the first n points whose magnitude is not zero.
NonZero(points, n) == { i \in 1..n : points[i].g # 0 }

RECURSIVE SumIntensities(_, _, _, _)
SumIntensities(arr, W, points, n) ==
    IF n = 0 THEN 0
    ELSE SumIntensities(arr, W, points, n - 1)
         + (IF points[n].g # 0 THEN CorrectedIntensity(arr, W, points[n]) ELSE 0)

\* C9: while and after the points are aggregated, the index tuples recorded over
\* all peaks are as many as the points with g # 0 processed, and the intensities
\* of the peaks add up to the corrected intensities of those points; the origin
\* adds nothing. After the loop the points processed are the retained points.
C9_EveryPointInExactlyOnePeak ==
    pc \in {"points", "done"} =>
        LET keys == SortedKeys(DOMAIN peaks)
            n == pt_i - 1
        IN  /\ SumSeq([i \in DOMAIN keys |-> Len(peaks[keys[i]].hkls)])
                  = Cardinality(NonZero(pts, n))
            /\ SumSeq([i \in DOMAIN keys |-> peaks[keys[i]].intensity])
                  = SumIntensities(arrays, calc.wavelength, pts, n)
            /\ \A k \in DOMAIN peaks : peaks[k].hkls # <<>>
            /\ pt_i > Len(pts) =>
                  /\ n = Len(recip_pts)
                  /\ Cardinality(NonZero(pts, n)) = Cardinality(NonZero(recip_pts, n))
                  /\ Range(pts) = Range(recip_pts)

\* The loop has ended over points that include the origin, with two peaks or
\* more, one of them merged.
C9_Witness ==
    /\ pc = "points"
    /\ pt_i > Len(pts)
    /\ \E i \in DOMAIN pts : pts[i].g = 0
    /\ Cardinality(DOMAIN peaks) >= 2
    /\ \E k \in DOMAIN peaks : Len(peaks[k].hkls) >= 2

\* A step of the loop over the points, for a point with g # 0.
C10_IsAggregation ==
    /\ pc = "points"
    /\ pc' = "points"
    /\ pt_i' = pt_i + 1
    /\ pts[pt_i].g # 0

C10_Merge(two_theta, intensity, hkl) ==
    /\ \E i \in DOMAIN two_thetas : Abs(two_thetas[i] - two_theta) < TWO_THETA_TOL
    /\ two_thetas' = two_thetas
    /\ DOMAIN peaks' = DOMAIN peaks
    /\ \E k \in DOMAIN peaks :
         /\ Abs(k - two_theta) < TWO_THETA_TOL
         /\ peaks'[k].intensity = peaks[k].intensity + intensity
         /\ peaks'[k].hkls = Append(peaks[k].hkls, hkl)
         /\ peaks'[k].d_hkl = peaks[k].d_hkl
         /\ \A j \in DOMAIN peaks \ {k} : peaks'[j] = peaks[j]

C10_Create(two_theta, intensity, hkl, g) ==
    /\ \A i \in DOMAIN two_thetas : Abs(two_thetas[i] - two_theta) >= TWO_THETA_TOL
    /\ two_theta \notin DOMAIN peaks
    /\ two_thetas' = Append(two_thetas, two_theta)
    /\ DOMAIN peaks' = DOMAIN peaks \cup {two_theta}
    /\ peaks'[two_theta] = [intensity |-> intensity, hkls |-> <<hkl>>, d_hkl |-> DHkl(g)]
    /\ \A j \in DOMAIN peaks : peaks'[j] = peaks[j]

C10_MergeOrCreate ==
    C10_IsAggregation =>
        LET pt == pts[pt_i]
            two_theta == TwoTheta(calc.wavelength, pt.g)
            intensity == CorrectedIntensity(arrays, calc.wavelength, pt)
            hkl == HexConvert(RoundHkl(pt.hkl), args.structure.lattice.is_hex)
        IN  /\ C10_Merge(two_theta, intensity, hkl) \/ C10_Create(two_theta, intensity, hkl, pt.g)
            /\ Range(two_thetas') = DOMAIN peaks'
            /\ SubSeq(two_thetas', 1, Len(two_thetas)) = two_thetas
            /\ \A k \in DOMAIN peaks :
                  /\ k \in DOMAIN peaks'
                  /\ peaks'[k].intensity >= peaks[k].intensity
                  /\ Len(peaks'[k].hkls) >= Len(peaks[k].hkls)
                  /\ SubSeq(peaks'[k].hkls, 1, Len(peaks[k].hkls)) = peaks[k].hkls

\* C10: a step of the aggregation for a point with g # 0 either merges (some
\* recorded key is within the tolerance: one such entry gets the intensity
\* added and the index appended, its key and d-spacing, the list of keys and
\* every other entry stay as they are) or creates (no key is within the
\* tolerance: one entry keyed by the point's angle is appended, the others stay
\* as they are). The list of keys is append-only and entries only grow.
C10_AggregationStepMergesOrCreates == [][C10_MergeOrCreate]_vars

\* The loop has merged a point into an earlier peak and then created another
\* peak.
C10_Witness ==
    /\ pc = "points"
    /\ Len(two_thetas) >= 2
    /\ Len(peaks[two_thetas[1]].hkls) >= 2
    /\ peaks[two_thetas[1]].intensity > 0

\* The orders in which an enumerator may return the points of s.
PermutationsOf(s) ==
    { [i \in DOMAIN s |-> s[f[i]]] :
        f \in { f \in [DOMAIN s -> DOMAIN s] : \A i, j \in DOMAIN s : f[i] = f[j] => i = j } }

\* The position in the sorted points of the first point recorded in a peak.
FirstPointOf(peak, is_hex) ==
    MinOf({ i \in DOMAIN pts :
              /\ pts[i].g # 0
              /\ HexConvert(RoundHkl(pts[i].hkl), is_hex) \in Range(peak.hkls) })

\* The points of s in the opposite order.
Reversed(s) == [i \in DOMAIN s |-> s[Len(s) + 1 - i]]

\* C11: every permutation of the enumerated points is processed in one and the
\* same sorted order, so that once the points are aggregated the peaks (keys,
\* intensities, index lists in order, d-spacings) and the list of keys are
\* those the permuted enumeration gives (computed here for the reversed one),
\* and the key of every peak is the angle of the first point of the peak in the
\* sorted order, whose index is the first of the peak's list.
C11_AggregationIndependentOfEnumerationOrder ==
    (pc = "points" /\ pt_i > Len(pts)) =>
        LET W == calc.wavelength
            is_hex == args.structure.lattice.is_hex
            got == AggregateAll(arrays, W, is_hex, Sorted(Reversed(recip_pts)),
                                Len(recip_pts))
        IN  /\ \A perm \in PermutationsOf(recip_pts) : Sorted(perm) = pts
            /\ got.peaks = peaks
            /\ got.two_thetas = two_thetas
            /\ \A k \in DOMAIN peaks :
                  LET first == pts[FirstPointOf(peaks[k], is_hex)]
                  IN  /\ k = TwoTheta(W, first.g)
                      /\ peaks[k].hkls[1] = HexConvert(RoundHkl(first.hkl), is_hex)
                      /\ peaks[k].d_hkl = DHkl(first.g)

\* The enumerator returned two points of equal g in the order opposite to the
\* sorted one, and they were merged into one peak.
C11_Witness ==
    /\ pc = "points"
    /\ pt_i > Len(pts)
    /\ pts # recip_pts
    /\ \E i, j \in DOMAIN recip_pts :
         /\ i < j
         /\ recip_pts[i].g = recip_pts[j].g
         /\ KeyLess(SortKey(recip_pts[j]), SortKey(recip_pts[i]))
    /\ \E k \in DOMAIN peaks : Len(peaks[k].hkls) >= 2

\* The positions of the points processed so far with g # 0.
Processed == { i \in DOMAIN pts : i < pt_i /\ pts[i].g # 0 }

\* The angle of the i-th sorted point.
AngleOf(i) == TwoTheta(calc.wavelength, pts[i].g)

\* The i-th sorted point is recorded in the peak of key k.
RecordedIn(i, k) ==
    HexConvert(RoundHkl(pts[i].hkl), args.structure.lattice.is_hex) \in Range(peaks[k].hkls)

\* Points A, B, C processed in this order: A created the peak whose key is its
\* angle, B was merged into it, and C is within the tolerance of B but not of A.
Chain(a, b, c) ==
    /\ a < b
    /\ b < c
    /\ AngleOf(a) \in DOMAIN peaks
    /\ peaks[AngleOf(a)].hkls[1] =
           HexConvert(RoundHkl(pts[a].hkl), args.structure.lattice.is_hex)
    /\ RecordedIn(b, AngleOf(a))
    /\ Abs(AngleOf(c) - AngleOf(b)) < TWO_THETA_TOL
    /\ Abs(AngleOf(c) - AngleOf(a)) >= TWO_THETA_TOL

\* C12 as stated: a point C that is within the tolerance of a point B merged
\* into the peak of A, and not within the tolerance of A, is merged into the
\* peak of A.
C12_TransitiveDrift ==
    pc \in {"points", "done"} =>
        \A a, b, c \in Processed : Chain(a, b, c) => RecordedIn(c, AngleOf(a))

\* C12 as amended: a point is recorded only in a peak whose key is within the
\* tolerance of the point's own angle; the points merged into a peak do not
\* move or widen it, and the last point of a chain gets a peak of its own.
C12_MergedOnlyWithinToleranceOfKey ==
    pc \in {"points", "done"} =>
        /\ \A i \in Processed : \A k \in DOMAIN peaks :
              RecordedIn(i, k) => Abs(AngleOf(i) - k) < TWO_THETA_TOL
        /\ \A a, b, c \in Processed :
              Chain(a, b, c) =>
                  /\ ~RecordedIn(c, AngleOf(a))
                  /\ \E k \in DOMAIN peaks :
                        /\ k # AngleOf(a)
                        /\ RecordedIn(c, k)
                        /\ Abs(AngleOf(c) - k) < TWO_THETA_TOL

\* A chain has been processed.
C12_Witness ==
    /\ pc = "points"
    /\ \E a, b, c \in Processed : Chain(a, b, c)

\* wavelength / (2 * sin(two_theta / 2)) in thousandths, for an angle of the grid:
\* sin(two_theta / 2) = x / SinDen where TwoThetaTable[x] = two_theta.
BraggD(W, two_theta) ==
    LET x == CHOOSE x \in DOMAIN TwoThetaTable : TwoThetaTable[x] = two_theta
    IN  (W * SinDen * 1000) \div (2 * x)

\* C13: the key and the d-spacing of every peak are those of the first point
\* processed for the peak, whatever was merged into it since, so that every
\* peak, recorded or returned, has d = wavelength / (2 * sin(two_theta / 2)).
C13_KeyAndSpacingOfFirstPoint ==
    pc \in {"points", "done"} =>
        LET W == calc.wavelength
            is_hex == args.structure.lattice.is_hex
        IN  /\ \A k \in DOMAIN peaks :
                  LET first == pts[FirstPointOf(peaks[k], is_hex)]
                  IN  /\ k = TwoTheta(W, first.g)
                      /\ peaks[k].d_hkl = DHkl(first.g)
                      /\ peaks[k].d_hkl = BraggD(W, k)
            /\ pc = "done" =>
                  \A i \in DOMAIN result.pattern.x :
                      /\ result.pattern.x[i] \in DOMAIN peaks
                      /\ result.pattern.d_hkls[i] = peaks[result.pattern.x[i]].d_hkl
                      /\ result.pattern.d_hkls[i] = BraggD(W, result.pattern.x[i])

\* A returned peak into which a point of another angle was merged.
C13_Witness ==
    /\ pc = "done"
    /\ \E n \in DOMAIN result.pattern.x :
         \E i \in Processed :
             /\ RecordedIn(i, result.pattern.x[n])
             /\ AngleOf(i) # result.pattern.x[n]

\* The recorded keys within the tolerance of an angle.
KeysWithinTol(two_theta) ==
    { i \in DOMAIN two_thetas : Abs(two_thetas[i] - two_theta) < TWO_THETA_TOL }

\* The recorded keys nearest to an angle.
NearestKeys(two_theta) ==
    { i \in DOMAIN two_thetas :
        \A j \in DOMAIN two_thetas :
            Abs(two_thetas[i] - two_theta) <= Abs(two_thetas[j] - two_theta) }

\* C15: at every step of the aggregation the points are in ascending g, the
\* recorded keys are strictly ascending (and a tolerance apart), and the point
\* about to be processed is not below the last key and is within the tolerance
\* of at most one key, the last one, which is then also the nearest key: the
\* first match is the only match.
C15_FirstMatchIsOnlyMatch ==
    pc = "points" =>
        /\ \A i, j \in DOMAIN pts : i < j => pts[i].g <= pts[j].g
        /\ \A i, j \in DOMAIN two_thetas :
              i < j => two_thetas[j] - two_thetas[i] >= TWO_THETA_TOL
        /\ (pt_i <= Len(pts) /\ pts[pt_i].g # 0) =>
              LET two_theta == AngleOf(pt_i)
                  ind == KeysWithinTol(two_theta)
              IN  /\ \A i \in DOMAIN two_thetas : two_thetas[i] <= two_theta
                  /\ Cardinality(ind) <= 1
                  /\ ind \subseteq {Len(two_thetas)}
                  /\ ind # {} => /\ MinOf(ind) = MaxOf(ind)
                                 /\ NearestKeys(two_theta) = ind

\* A point is about to be merged into the last of two or more keys.
C15_Witness ==
    /\ pc = "points"
    /\ pt_i <= Len(pts)
    /\ pts[pt_i].g # 0
    /\ Len(two_thetas) >= 2
    /\ KeysWithinTol(AngleOf(pt_i)) = {Len(two_thetas)}

\* No retained point has g # 0.
NoReflection == \A i \in DOMAIN recip_pts : recip_pts[i].g = 0

\* C16: a call on a structure of known species whose retained points hold no
\* point with g # 0 records no peak and returns no pattern: it ends, after the
\* loop over the points, with the error of the maximum over no peak.
C16_NoReflectionRaises ==
    (pc # "idle" /\ ~HasUnknownSpecies(args.structure) /\ NoReflection) =>
        /\ pc \in {"sites", "points", "error"}
        /\ result.status # "ok"
        /\ result.pattern = NoPattern
        /\ pc = "points" => peaks = EmptyDict /\ two_thetas = <<>> /\ result = NoOutcome
        /\ pc = "error" =>
              /\ result = Raised("ValueError")
              /\ peaks = EmptyDict
              /\ pt_i = Len(pts) + 1
              /\ site_i = Len(FlatSpecies(args.structure.sites)) + 1

\* A call whose two-theta window holds no reflection of the lattice has ended
\* with the error.
C16_Witness ==
    /\ pc = "error"
    /\ ~HasUnknownSpecies(args.structure)
    /\ NoReflection
    /\ args.two_theta_range # NoneRange
    /\ result = Raised("ValueError")

\* C14: two entries of the same class that are equal (a == b is True) have the
\* same hash.
C14_EqualEntriesHashEqual ==
    (entries.pc = "hashed" /\ entries.a.cls = entries.b.cls /\ entries.eq = "True") =>
        entries.hash_a = entries.hash_b

====
